---- MODULE Spec2Model ----
(***************************************************************************)
(* The listings catalogue of app/api/listings.py over the tables of        *)
(* app/models.py: the upsert orchestrator (upsert_listings and its three   *)
(* helpers), the unit of work of app/database.py (get_db_session) and the  *)
(* read side (get_listings).  The store is modelled as the committed       *)
(* tables plus, per session, the rows the session has written and not yet  *)
(* committed; a session reads the committed rows overlaid by its own.      *)
(* A session sends its pending rows to the store before each of its        *)
(* queries and at commit (autoflush); the store runs each transaction at   *)
(* READ COMMITTED: a row a transaction has inserted or updated is locked   *)
(* until that transaction ends.                                            *)
(***************************************************************************)
EXTENDS Integers, Sequences, FiniteSets, TLC

\* ------------------------------------------------------------------ bounds

\* Number of upsert requests issued in one behaviour.
MaxCalls == 2

\* Sessions that may run an upsert; Spec runs them one request at a time.
Sessions == {1}

\* Number of upsert requests issued in one behaviour of SpecConc, and the
\* sessions that run them side by side.
MaxConcCalls == 3
ConcSessions == {1, 2}

\* ------------------------------------------------------- program constants

PAGE_SIZE == 100

BOOL_LIKE_VALUES ==
    {"true", "True", "1", "on", "yes", "false", "False", "0", "off", "no"}

Tables == {"listings", "properties", "strvals", "boolvals", "entities"}

\* ------------------------------------------------------------------ inputs

\* JSON objects are sets of <<key, value>> pairs with distinct keys.
DataOne == {<<"key1", "value1">>, <<"key2", "value2">>}
DataTwo == {<<"key3", "value3">>}
DataNew == {<<"key1", "other">>}

Prop(n, t, v) == [name |-> n, type |-> t, value |-> v]
Ent(n, d) == [name |-> n, data |-> d]

PropertyLists ==
    { <<>>,
      <<Prop("Brand", "Bool", "TRUE")>>,
      <<Prop("Has Delivery", "bool", "false"), Prop("Brand", "String", "Apple")>>,
      <<Prop("Has Delivery", "boolean", "True"), Prop("Brand", "int", "7")>> }

EntityLists ==
    { <<>>,
      <<Ent("entity_one", DataNew)>>,
      <<Ent("entity_two", DataTwo), Ent("entity_one", DataOne)>> }

Scalars ==
    { [scan_date |-> 1, is_active |-> TRUE, image_hashes |-> <<"hash1">>],
      [scan_date |-> 2, is_active |-> FALSE, image_hashes |-> <<"hash2", "hash3">>] }

UpsertListing(id, s, ps, es) ==
    [listing_id |-> id, scan_date |-> s.scan_date, is_active |-> s.is_active,
     image_hashes |-> s.image_hashes, properties |-> ps, entities |-> es]

Payloads ==
    { UpsertListing(id, s, ps, es) :
        id \in {"112", "113"}, s \in Scalars, ps \in PropertyLists, es \in EntityLists }

\* The three listings of the create_sample_listings fixture.
SampleListings ==
    << [listing_id |-> "112", scan_date |-> 1, is_active |-> TRUE,
        image_hashes |-> <<"hash1">>,
        properties |-> <<Prop("Brand", "str", "Samsung"),
                         Prop("Has Delivery", "bool", "false")>>,
        entities |-> <<Ent("entity_one", DataOne)>>],
       [listing_id |-> "113", scan_date |-> 1, is_active |-> TRUE,
        image_hashes |-> <<"hash2", "hash3">>,
        properties |-> <<Prop("Brand", "str", "Apple"),
                         Prop("Has Delivery", "bool", "true")>>,
        entities |-> <<Ent("entity_two", DataTwo)>>],
       [listing_id |-> "114", scan_date |-> 1, is_active |-> TRUE,
        image_hashes |-> <<"hash4", "hash5", "hash6">>,
        properties |-> <<Prop("Brand", "str", "Google"),
                         Prop("Has Delivery", "bool", "true")>>,
        entities |-> <<Ent("entity_one", DataOne)>>] >>

\* The request bodies tried: every single listing, the fixture, a pair that
\* puts listing 113 first, and the empty batch.
Requests ==
    { <<p>> : p \in Payloads }
        \cup { SampleListings, <<SampleListings[2], SampleListings[1]>>, <<>> }

ListingIds == {"112", "113", "114"}

\* The request bodies of the concurrent runs: listing 112 with either set of
\* scalars and no properties or entities, listing 112 with a new entity,
\* listing 112 with a new property, and listing 113 with both.
ConcRequests ==
    { <<p>> : p \in { q \in Payloads :
        \/ q.properties = <<>> /\ q.entities = <<>> /\ q.listing_id = "112"
        \/ /\ q.listing_id = "112" /\ q.scan_date = 1
           /\ q.properties = <<>> /\ q.entities = <<Ent("entity_one", DataNew)>>
        \/ /\ q.listing_id = "112" /\ q.scan_date = 2
           /\ q.properties = <<Prop("Brand", "Bool", "TRUE")>> /\ q.entities = <<>>
        \/ /\ q.listing_id = "113" /\ q.scan_date = 1
           /\ q.properties = <<Prop("Brand", "Bool", "TRUE")>>
           /\ q.entities = <<Ent("entity_one", DataNew)>> } }

NoPayload == [listing_id |-> "none"]

\* ---------------------------------------------------------------- strings

\* str.lower() on the strings the inputs use.
Lower(s) ==
    CASE s = "Bool" -> "bool"
      [] s = "String" -> "string"
      [] s = "TRUE" -> "true"
      [] s = "True" -> "true"
      [] s = "False" -> "false"
      [] s = "Samsung" -> "samsung"
      [] s = "Apple" -> "apple"
      [] s = "Google" -> "google"
      [] OTHER -> s

\* The characters of a listing id, for the store's ordering of text.
Chars(id) ==
    CASE id = "112" -> <<1, 1, 2>>
      [] id = "113" -> <<1, 1, 3>>
      [] id = "114" -> <<1, 1, 4>>

RECURSIVE LexLess(_, _)
LexLess(a, b) ==
    IF a = <<>> THEN b # <<>>
    ELSE IF b = <<>> THEN FALSE
    ELSE IF Head(a) # Head(b) THEN Head(a) < Head(b)
    ELSE LexLess(Tail(a), Tail(b))

Range(s) == { s[k] : k \in 1..Len(s) }


\* ------------------------------------------------------------------- state

VARIABLES
    db,     \* the committed rows of the five tables
    seq,    \* the next value of the two serial primary keys
    txn,    \* per session: the position in upsert_listings and its unit of work
    calls,  \* upsert requests started so far
    hist    \* history: per listing the payloads of its latest committed upsert
            \* and of the one before; the payload committed last of all, and
            \* whether the commit before it was of the same payload

vars == <<db, seq, txn, calls, hist>>

EmptyTables == [tbl \in Tables |-> {}]

NoResponse == [status |-> "none", listing_id |-> ""]

IdleSession ==
    [pc |-> "idle", listings |-> <<>>, index |-> 1, current_listing_index |-> "",
     i |-> 1, j |-> 1, entity_ids |-> <<>>, w |-> EmptyTables,
     new |-> {}, inserted |-> {}, clean |-> EmptyTables, updated |-> {},
     response |-> NoResponse, raised |-> FALSE]

\* Primary key of a row of each table (app/models.py).
KeyOf(tbl, r) ==
    CASE tbl = "listings" -> <<r.listing_id>>
      [] tbl = "properties" -> <<r.property_id>>
      [] tbl = "strvals" -> <<r.listing_id, r.property_id>>
      [] tbl = "boolvals" -> <<r.listing_id, r.property_id>>
      [] tbl = "entities" -> <<r.entity_id>>

\* What a session's queries see: the committed rows, overlaid by the rows
\* the session itself has written in its open transaction.
Overlay(base, w) ==
    [tbl \in Tables |->
        { r \in base[tbl] : \A x \in w[tbl] : KeyOf(tbl, x) # KeyOf(tbl, r) }
            \cup w[tbl]]

View(t) == Overlay(db, txn[t].w)

\* session.add of a new or changed row.
Write(w, tbl, r) ==
    [w EXCEPT ![tbl] = { x \in @ : KeyOf(tbl, x) # KeyOf(tbl, r) } \cup {r}]

\* session.rollback(): the unit of work is discarded.
Rollback(w) == EmptyTables

\* session.add(r) in session state s, for a row r of table tbl that is new
\* (loaded = {}) or is the changed image of the row the query loaded.  The
\* session keeps, beside the row: for a new row that its INSERT is pending,
\* for a row loaded from the store the image it was loaded with.
Track(s, tbl, r, loaded) ==
    LET key == KeyOf(tbl, r)
        known == \E x \in s.w[tbl] : KeyOf(tbl, x) = key
    IN [s EXCEPT
          !.w = Write(s.w, tbl, r),
          !.new = IF loaded = {} /\ ~known THEN @ \cup {<<tbl, key>>} ELSE @,
          !.clean = IF loaded # {} /\ ~known
                    THEN Write(@, tbl, CHOOSE x \in loaded : KeyOf(tbl, x) = key)
                    ELSE @]

\* The columns the unit of work will put in UPDATE statements at the next
\* flush: those of a loaded row whose value differs from the image the
\* store was last given.  A row with no net change gets no statement.
PendingUpdates(s) ==
    UNION { { <<k[1], KeyOf(k[1], k[2]), c>> :
                c \in { d \in DOMAIN k[2] :
                          \E r \in s.w[k[1]] :
                              /\ KeyOf(k[1], r) = KeyOf(k[1], k[2])
                              /\ r[d] # k[2][d] } } :
            k \in UNION { {tbl} \X s.clean[tbl] : tbl \in Tables } }

\* The rows a session has written in the store in its open transaction and
\* so holds the lock of.
Locks(s) == s.inserted \cup { <<x[1], x[2]>> : x \in s.updated }

\* The rows the statements of the next flush of s write.
Needs(s) == s.new \cup { <<x[1], x[2]>> : x \in PendingUpdates(s) }

\* Session t's flush has to wait: another open transaction has written a
\* row it writes (an UPDATE of the same row, or an INSERT of the same key).
Blocked(t) ==
    \E u \in DOMAIN txn \ {t} : Needs(txn[t]) \cap Locks(txn[u]) # {}

\* The flush of s fails: a row it inserts has the primary key of a row
\* committed since the session looked (IntegrityError).
Conflict(s) ==
    \E k \in s.new : \E r \in db[k[1]] : KeyOf(k[1], r) = k[2]

\* The state of the unit of work after its flush.
Flushed(s) ==
    [s EXCEPT
        !.new = {},
        !.inserted = @ \cup s.new,
        !.updated = @ \cup PendingUpdates(s),
        !.clean = [tbl \in Tables |->
                      { x \in s.w[tbl] :
                          \E y \in s.clean[tbl] : KeyOf(tbl, y) = KeyOf(tbl, x) }]]

RECURSIVE SetColumns(_, _, _)
\* UPDATE ... SET: row r with the columns cols taken from x.
SetColumns(r, x, cols) ==
    IF cols = {} THEN r
    ELSE LET c == CHOOSE d \in cols : TRUE
         IN SetColumns([r EXCEPT ![c] = x[c]], x, cols \ {c})

\* COMMIT of the flushed unit of work s over the committed tables: the rows
\* it inserted are added, and each row it updated takes the columns of its
\* UPDATE statements, whatever the other columns hold by now.
Apply(base, s) ==
    [tbl \in Tables |->
        { IF \E x \in s.w[tbl] : KeyOf(tbl, x) = KeyOf(tbl, r)
          THEN SetColumns(r, CHOOSE x \in s.w[tbl] : KeyOf(tbl, x) = KeyOf(tbl, r),
                          { c \in DOMAIN r : <<tbl, KeyOf(tbl, r), c>> \in s.updated })
          ELSE r : r \in base[tbl] }
        \cup { x \in s.w[tbl] : <<tbl, KeyOf(tbl, x)>> \in s.inserted }]

\* ------------------------------------------------------ upsert: pure parts

\* Mutant: the return statement placed after the loop, so that the loop body
\* runs for every listing of the batch.
ListingsProcessedAll(listings) == listings

\* The listings the loop body of upsert_listings runs for: its return
\* statement is inside the loop, so the loop ends in its first iteration.
ListingsProcessed(listings) ==
    IF listings = <<>> THEN <<>> ELSE <<listings[1]>>

\* Mutant: the update branch forgets is_active.
ListingRowStaleFlag(existing, listing_data) ==
    IF existing # {}
    THEN [(CHOOSE r \in existing : TRUE) EXCEPT
                !.scan_date = listing_data.scan_date,
                !.image_hashes = listing_data.image_hashes,
                !.dataset_entity_ids = <<>>]
    ELSE [listing_id |-> listing_data.listing_id,
          scan_date |-> listing_data.scan_date,
          is_active |-> listing_data.is_active,
          image_hashes |-> listing_data.image_hashes,
          dataset_entity_ids |-> <<>>]

\* _upsert_listing: the row for listing_data, given the rows found by id.
ListingRow(existing, listing_data) ==
    IF existing # {}
    THEN LET existing_listing == CHOOSE r \in existing : TRUE
         IN [existing_listing EXCEPT
                !.scan_date = listing_data.scan_date,
                !.is_active = listing_data.is_active,
                !.image_hashes = listing_data.image_hashes,
                !.dataset_entity_ids = <<>>]
    ELSE [listing_id |-> listing_data.listing_id,
          scan_date |-> listing_data.scan_date,
          is_active |-> listing_data.is_active,
          image_hashes |-> listing_data.image_hashes,
          dataset_entity_ids |-> <<>>]

\* property_table_map of _upsert_properties.
property_table_map ==
    [ty \in {"str", "string", "bool", "boolean"} |->
        IF ty \in {"str", "string"} THEN "strvals" ELSE "boolvals"]

\* formatter of _upsert_properties.
formatter(VALUE_TABLE, property_data) ==
    IF VALUE_TABLE = "strvals"
    THEN property_data.value
    ELSE Lower(property_data.value) = "true"

\* The type a Property row is created with.
PropertyTypeOf(property_type) ==
    IF property_type \in {"str", "string"} THEN "STRING" ELSE "BOOLEAN"

\* Mutant: the lookup by name finds nothing, so every upsert creates a row.
FindPropertyNone(rows, name) == {}

\* The Property rows found by name.
FindProperty(rows, name) == { r \in rows : r.name = name }

\* Mutant: the lookup of the value row leaves out the property_id condition.
ExistingValueAnyProperty(rows, listing_id, property_id) ==
    { r \in rows : r.listing_id = listing_id }

\* The value rows found for (listing_id, property_id) in one value table.
ExistingValue(rows, listing_id, property_id) ==
    { r \in rows : r.listing_id = listing_id /\ r.property_id = property_id }

\* The value row written: the existing row updated in place, or a new row.
ValueRow(existing_value, listing_id, property_id, value) ==
    IF existing_value # {}
    THEN [(CHOOSE r \in existing_value : TRUE) EXCEPT !.value = value]
    ELSE [listing_id |-> listing_id, property_id |-> property_id, value |-> value]

\* The DatasetEntity rows found by name.
FindEntity(rows, name) == { r \in rows : r.name = name }

\* Mutant: an existing entity's data is merged with the new data.
EntityRowMerged(existing, next_id, entity_data) ==
    IF existing = {}
    THEN [entity_id |-> next_id, name |-> entity_data.name, data |-> entity_data.data]
    ELSE LET old == CHOOSE r \in existing : TRUE
         IN [old EXCEPT !.data =
                entity_data.data \cup
                { kv \in old.data : \A n \in entity_data.data : n[1] # kv[1] }]

\* _upsert_entities: the row for entity_data, given the rows found by name
\* and the next serial entity_id.
EntityRow(existing, next_id, entity_data) ==
    IF existing = {}
    THEN [entity_id |-> next_id, name |-> entity_data.name, data |-> entity_data.data]
    ELSE [(CHOOSE r \in existing : TRUE) EXCEPT !.data = entity_data.data]

\* entity_ids.append(entity_record.entity_id)
CollectEntityId(entity_ids, entity_id) == Append(entity_ids, entity_id)

\* Mutant: the assignment of the collected ids is left out.
AssignEntityIdsDropped(listing_obj, entity_ids) == listing_obj

\* listing_obj.dataset_entity_ids = entity_ids
AssignEntityIds(listing_obj, entity_ids) ==
    [listing_obj EXCEPT !.dataset_entity_ids = entity_ids]

\* Where the loop body goes after step `stage` of listing_data.
NextPc(stage, listing_data, i, j) ==
    IF stage = "listing" /\ listing_data.properties # <<>> THEN "property"
    ELSE IF stage = "property" /\ i < Len(listing_data.properties) THEN "property"
    ELSE IF stage \in {"listing", "property"} /\ listing_data.entities # <<>> THEN "entity"
    ELSE IF stage = "entity" /\ j < Len(listing_data.entities) THEN "entity"
    ELSE "return"

\* The except clause of upsert_listings: roll back, answer "failed".
Except(s, listing_id) ==
    [s EXCEPT !.pc = "commit",
              !.current_listing_index = listing_id,
              !.i = 1, !.j = 1, !.entity_ids = <<>>,
              !.w = Rollback(s.w),
              !.new = {}, !.inserted = {}, !.clean = EmptyTables, !.updated = {},
              !.response = [status |-> "failed", listing_id |-> listing_id]]


\* --------------------------------------------------------------- read side

\* ListingGetRequest: an absent (None) field is the empty set, a present one
\* the set of its value.
DefaultFilters ==
    [page |-> {1}, listing_id |-> {}, scan_date_from |-> {}, scan_date_to |-> {},
     is_active |-> {}, image_hashes |-> {}, dataset_entities |-> {},
     properties |-> {}]

\* BooleanPropertyValue.value.cast(String)
CastString(b) == IF b THEN "true" ELSE "false"

\* property_values_union joined with Property and aggregated for one listing.
PropertiesOf(tables, listing_id) ==
    { [name |-> p.name, type |-> "str", value |-> v.value] :
        <<v, p>> \in { x \in tables.strvals \X tables.properties :
                         /\ x[1].listing_id = listing_id
                         /\ x[1].property_id = x[2].property_id } }
    \cup
    { [name |-> p.name, type |-> "bool", value |-> CastString(v.value)] :
        <<v, p>> \in { x \in tables.boolvals \X tables.properties :
                         /\ x[1].listing_id = listing_id
                         /\ x[1].property_id = x[2].property_id } }

\* The entities joined to a listing row through dataset_entity_ids.
EntitiesOf(tables, listing) ==
    { [name |-> e.name, data |-> e.data] :
        e \in { x \in tables.entities : x.entity_id \in Range(listing.dataset_entity_ids) } }

\* DatasetEntity.data @> d on flat JSON objects.
Contains(data, d) == d \subseteq data

\* entities_subquery: the entities of a listing that pass the containment
\* test of the dataset_entities filter (every entity when it is absent or
\* empty).
entities_subquery(tables, listing, filters) ==
    { e \in EntitiesOf(tables, listing) :
        \A d \in filters.dataset_entities : d # {} => Contains(e.data, d) }

\* What the dataset_entities filter adds to the main statement:
\* cardinality(Listing.dataset_entity_ids) > 0.
dataset_entities_condition(listing, filters) ==
    \A d \in filters.dataset_entities :
        d # {} => Len(listing.dataset_entity_ids) > 0

\* is_bool_like of app/api/utils.py.
is_bool_like(value) == value \in BOOL_LIKE_VALUES

\* TypeAdapter(bool).validate_python on a bool-like string.
validate_python(value) == value \in {"true", "True", "1", "on", "yes"}

\* str() of a Python bool.
PyStr(b) == IF b THEN "True" ELSE "False"

\* int() of a property id given as the key of the filter object.
IntOf(text) ==
    CASE text = "1" -> 1
      [] text = "2" -> 2
      [] text = "3" -> 3

\* Mutant: the normalised boolean keeps Python's capitalised spelling.
bool_valueNotLowered(expected_value) ==
    IF is_bool_like(expected_value)
    THEN PyStr(validate_python(expected_value))
    ELSE expected_value

\* bool_value of the properties filter: the text a boolean row is compared to.
bool_value(expected_value) ==
    IF is_bool_like(expected_value)
    THEN Lower(PyStr(validate_python(expected_value)))
    ELSE expected_value

\* property_values_union: the rows of both value tables, the boolean values
\* cast to text, each tagged with the table it comes from.
property_values_union(tables) ==
    { [listing_id |-> v.listing_id, property_id |-> v.property_id,
       value |-> v.value, type |-> "str"] : v \in tables.strvals }
    \cup
    { [listing_id |-> v.listing_id, property_id |-> v.property_id,
       value |-> CastString(v.value), type |-> "bool"] : v \in tables.boolvals }

\* property_exists: the EXISTS subquery for one entry of the filter.
property_exists(tables, listing, property_id, expected_value) ==
    \E u \in property_values_union(tables) :
        /\ u.listing_id = listing.listing_id
        /\ u.property_id = IntOf(property_id)
        /\ CASE u.type = "bool" -> u.value = bool_value(expected_value)
             [] u.type = "str" -> u.value = expected_value
             [] OTHER -> FALSE

\* property_condition: the conjunction over the entries of the filter, a
\* set of <<property id, expected value>> pairs (nothing when it is absent
\* or empty).
property_condition(tables, listing, filters) ==
    \A m \in filters.properties :
        \A kv \in m : property_exists(tables, listing, kv[1], kv[2])

\* _add_filters
add_filters(listing, filters) ==
    /\ \A id \in filters.listing_id : listing.listing_id = id
    /\ \A from \in filters.scan_date_from : \A to \in filters.scan_date_to :
          listing.scan_date >= from /\ listing.scan_date <= to
    /\ \A a \in filters.is_active : listing.is_active = a
    /\ \A hs \in filters.image_hashes :
          hs # <<>> => Range(listing.image_hashes) \cap Range(hs) # {}

\* ORDER BY listing_id: the rows of a set in ascending order of the id text.
RECURSIVE OrderByListingId(_)
OrderByListingId(rows) ==
    IF rows = {} THEN <<>>
    ELSE LET first == CHOOSE r \in rows :
                        \A o \in rows \ {r} :
                            LexLess(Chars(r.listing_id), Chars(o.listing_id))
         IN <<first>> \o OrderByListingId(rows \ {first})

\* OFFSET (page - 1) * PAGE_SIZE LIMIT PAGE_SIZE
Paginate(ordered, page) ==
    LET offset == IF page = {} \/ page = {0} THEN 0
                  ELSE ((CHOOSE n \in page : TRUE) - 1) * PAGE_SIZE
    IN SubSeq(ordered, offset + 1,
              IF Len(ordered) < offset + PAGE_SIZE THEN Len(ordered)
              ELSE offset + PAGE_SIZE)

\* get_listings: the formatted rows of one page.
get_listings(tables, filters) ==
    LET matching == { r \in tables.listings :
                        /\ dataset_entities_condition(r, filters)
                        /\ property_condition(tables, r, filters)
                        /\ add_filters(r, filters) }
        page == Paginate(OrderByListingId(matching), filters.page)
    IN [k \in 1..Len(page) |->
          [listing_id |-> page[k].listing_id,
           scan_date |-> page[k].scan_date,
           is_active |-> page[k].is_active,
           dataset_entity_ids |-> page[k].dataset_entity_ids,
           image_hashes |-> page[k].image_hashes,
           properties |-> PropertiesOf(tables, page[k].listing_id),
           entities |-> entities_subquery(tables, page[k], filters)]]

\* What get_listings answers with: `return formatted_results`, the rows of
\* the page and nothing beside them.
Response(tables, filters) == [listings |-> get_listings(tables, filters)]

\* ----------------------------------------------------------------- history

\* The payloads a committed request wrote, folded into the history.
RECURSIVE Record(_, _)
Record(h, done) ==
    IF done = <<>> THEN h
    ELSE Record([h EXCEPT !.lastOk[Head(done).listing_id] = Head(done),
                          !.prevOk[Head(done).listing_id] =
                                h.lastOk[Head(done).listing_id],
                          !.repeated = (h.lastDone = Head(done)),
                          !.lastDone = Head(done)],
                Tail(done))

\* ------------------------------------------------------------------ actions

Init ==
    /\ db = EmptyTables
    /\ seq = [property |-> 1, entity |-> 1]
    /\ txn = [t \in Sessions |-> IdleSession]
    /\ calls = 0
    /\ hist = [lastOk |-> [id \in ListingIds |-> NoPayload],
               prevOk |-> [id \in ListingIds |-> NoPayload],
               lastDone |-> NoPayload,
               repeated |-> FALSE]

\* upsert_listings is entered with a request body: get_db_session opens the
\* session, and the loop starts (or, for an empty batch, is skipped).
Request(t) ==
    /\ txn[t].pc = "idle"
    /\ \A u \in Sessions : txn[u].pc = "idle"
    /\ calls < MaxCalls
    /\ \E listings \in Requests :
         txn' = [txn EXCEPT ![t] =
                    [IdleSession EXCEPT
                        !.pc = IF ListingsProcessed(listings) = <<>>
                               THEN "commit" ELSE "listing",
                        !.listings = listings]]
    /\ calls' = calls + 1
    /\ UNCHANGED <<db, seq, hist>>

\* _upsert_listing for the listing at the loop index.  Its query flushes
\* what the session holds; the step waits while that flush is blocked.
upsert_listing(t) ==
    LET s == txn[t]
        listing_data == s.listings[s.index]
        existing == { r \in View(t).listings : r.listing_id = listing_data.listing_id }
    IN /\ txn[t].pc = "listing"
       /\ ~Blocked(t)
       /\ \E fault \in BOOLEAN :
            txn' = [txn EXCEPT ![t] =
                IF fault \/ Conflict(txn[t])
                THEN Except(s, listing_data.listing_id)
                ELSE [Track(Flushed(s), "listings",
                            ListingRow(existing, listing_data), existing)
                      EXCEPT
                        !.pc = NextPc("listing", listing_data, 1, 1),
                        !.current_listing_index = listing_data.listing_id,
                        !.i = 1, !.j = 1, !.entity_ids = <<>>]]
       /\ UNCHANGED <<db, seq, calls, hist>>

\* One iteration of the loop of _upsert_properties.
upsert_properties(t) ==
    LET s == txn[t]
        listing_id == s.current_listing_index
        property_data == s.listings[s.index].properties[s.i]
        property_type == Lower(property_data.type)
        found == FindProperty(View(t).properties, property_data.name)
        created == [property_id |-> seq.property, name |-> property_data.name,
                    type |-> PropertyTypeOf(property_type)]
    IN /\ txn[t].pc = "property"
       /\ ~Blocked(t)
       /\ \E fault \in BOOLEAN :
          \E property_record \in (IF found = {} THEN {created} ELSE found) :
            LET s1 == IF found = {}
                      THEN [Flushed(s) EXCEPT
                              !.w = Write(s.w, "properties", property_record),
                              !.inserted = @ \cup
                                  {<<"properties", KeyOf("properties", property_record)>>}]
                      ELSE Flushed(s)
            IN IF fault \/ Conflict(txn[t])
               THEN /\ txn' = [txn EXCEPT ![t] = Except(s, listing_id)]
                    /\ seq' = seq
               ELSE /\ seq' = IF found = {} THEN [seq EXCEPT !.property = @ + 1] ELSE seq
                    /\ IF property_type \notin DOMAIN property_table_map
                       THEN txn' = [txn EXCEPT ![t] = Except(s, listing_id)]
                       ELSE LET VALUE_TABLE == property_table_map[property_type]
                                existing_value ==
                                    ExistingValue(Overlay(db, s1.w)[VALUE_TABLE],
                                                  listing_id, property_record.property_id)
                                value == formatter(VALUE_TABLE, property_data)
                            IN txn' = [txn EXCEPT ![t] =
                                 [Track(s1, VALUE_TABLE,
                                        ValueRow(existing_value, listing_id,
                                                 property_record.property_id, value),
                                        existing_value)
                                  EXCEPT
                                    !.pc = NextPc("property", s.listings[s.index], s.i, s.j),
                                    !.i = s.i + 1]]
       /\ UNCHANGED <<db, calls, hist>>

\* The INSERT of a DatasetEntity named `name` by session t has to wait:
\* another open transaction has inserted a row of that name (name is unique).
EntityInsertBlocked(t, name) ==
    \E u \in DOMAIN txn \ {t} :
        \E r \in txn[u].w.entities :
            /\ r.name = name
            /\ <<"entities", KeyOf("entities", r)>> \in txn[u].inserted

\* One iteration of the loop of _upsert_entities.  A new entity is inserted
\* and flushed at once; when that INSERT has to wait, the step ends in
\* "entity_wait" with the row still to be inserted.
upsert_entities(t) ==
    LET s == txn[t]
        entity_data == s.listings[s.index].entities[s.j]
        found == FindEntity(View(t).entities, entity_data.name)
        entity_record == EntityRow(found, seq.entity, entity_data)
        key == <<"entities", KeyOf("entities", entity_record)>>
        done == [Flushed(s) EXCEPT
                   !.pc = NextPc("entity", s.listings[s.index], s.i, s.j),
                   !.j = s.j + 1,
                   !.entity_ids = CollectEntityId(s.entity_ids,
                                                  entity_record.entity_id)]
    IN /\ txn[t].pc = "entity"
       /\ ~Blocked(t)
       /\ \E fault \in BOOLEAN :
            IF fault \/ Conflict(txn[t])
            THEN /\ txn' = [txn EXCEPT ![t] = Except(s, s.current_listing_index)]
                 /\ seq' = seq
            ELSE /\ seq' = IF found = {} THEN [seq EXCEPT !.entity = @ + 1] ELSE seq
                 /\ txn' = [txn EXCEPT ![t] =
                      IF found # {}
                      THEN Track(done, "entities", entity_record, found)
                      ELSE IF EntityInsertBlocked(t, entity_data.name)
                      THEN [Flushed(s) EXCEPT
                                     !.pc = "entity_wait",
                                     !.w = Write(s.w, "entities", entity_record),
                                     !.new = @ \cup {key}]
                      ELSE [done EXCEPT !.w = Write(s.w, "entities", entity_record),
                                        !.inserted = @ \cup {key}]]
       /\ UNCHANGED <<db, calls, hist>>

\* The INSERT of a new entity that had to wait goes through once the other
\* transaction has ended: it fails on the unique name if that transaction
\* committed its row, and inserts the row if it rolled back.
entity_insert(t) ==
    LET s == txn[t]
        entity_data == s.listings[s.index].entities[s.j]
        entity_record == CHOOSE r \in s.w.entities :
                            <<"entities", KeyOf("entities", r)>> \in s.new
    IN /\ s.pc = "entity_wait"
       /\ ~EntityInsertBlocked(t, entity_data.name)
       /\ txn' = [txn EXCEPT ![t] =
            IF FindEntity(db.entities, entity_data.name) # {}
            THEN Except(s, s.current_listing_index)
            ELSE [s EXCEPT
                    !.pc = NextPc("entity", s.listings[s.index], s.i, s.j),
                    !.j = s.j + 1,
                    !.entity_ids = CollectEntityId(s.entity_ids,
                                                   entity_record.entity_id),
                    !.new = {},
                    !.inserted = @ \cup s.new]]
       /\ UNCHANGED <<db, seq, calls, hist>>

\* The end of the loop body: the listing gets its entity ids, and the handler
\* returns "success" (or the loop goes on to the next listing it runs for).
return_success(t) ==
    LET s == txn[t]
        listing_obj ==
            CHOOSE r \in View(t).listings : r.listing_id = s.current_listing_index
        s1 == Track(s, "listings", AssignEntityIds(listing_obj, s.entity_ids),
                    {listing_obj})
    IN /\ s.pc = "return"
       /\ txn' = [txn EXCEPT ![t] =
            IF s.index < Len(ListingsProcessed(s.listings))
            THEN [s1 EXCEPT !.pc = "listing", !.index = s.index + 1,
                            !.i = 1, !.j = 1, !.entity_ids = <<>>]
            ELSE [s1 EXCEPT !.pc = "commit",
                            !.i = 1, !.j = 1, !.entity_ids = <<>>,
                            !.response = [status |-> "success", listing_id |-> ""]]]
       /\ UNCHANGED <<db, seq, calls, hist>>

\* The exit of get_db_session: session.commit() flushes and commits what the
\* session holds; if the store refuses, the session is rolled back and
\* DatabaseError is raised to the caller of upsert_listings.
commit(t) ==
    LET s == txn[t]
        closed == [s EXCEPT !.pc = "idle", !.w = EmptyTables,
                            !.new = {}, !.inserted = {},
                            !.clean = EmptyTables, !.updated = {}]
    IN /\ txn[t].pc = "commit"
       /\ ~Blocked(t)
       /\ \E fault \in BOOLEAN :
            IF s.w = EmptyTables
            THEN /\ txn' = [txn EXCEPT ![t] = [s EXCEPT !.pc = "idle"]]
                 /\ UNCHANGED <<db, hist>>
            ELSE IF fault \/ Conflict(txn[t])
            THEN /\ txn' = [txn EXCEPT ![t] =
                      [closed EXCEPT !.w = Rollback(s.w),
                                     !.response = NoResponse, !.raised = TRUE]]
                 /\ UNCHANGED <<db, hist>>
            ELSE /\ db' = Apply(db, Flushed(s))
                 /\ txn' = [txn EXCEPT ![t] = closed]
                 /\ hist' = IF s.response.status = "success"
                            THEN Record(hist, ListingsProcessed(s.listings))
                            ELSE hist
       /\ UNCHANGED <<seq, calls>>

Next ==
    \E t \in Sessions :
        \/ Request(t)
        \/ upsert_listing(t)
        \/ upsert_properties(t)
        \/ upsert_entities(t)
        \/ return_success(t)
        \/ commit(t)

Spec == Init /\ [][Next]_vars

\* ------------------------------------------------------- concurrent upserts

InitConc ==
    /\ db = EmptyTables
    /\ seq = [property |-> 1, entity |-> 1]
    /\ txn = [t \in ConcSessions |-> IdleSession]
    /\ calls = 0
    /\ hist = [lastOk |-> [id \in ListingIds |-> NoPayload],
               prevOk |-> [id \in ListingIds |-> NoPayload],
               lastDone |-> NoPayload,
               repeated |-> FALSE]

\* upsert_listings is entered by a session while another may be in the
\* middle of its own request: each request has its own session and
\* transaction.
RequestConc(t) ==
    /\ txn[t].pc = "idle"
    /\ calls < MaxConcCalls
    /\ \E listings \in ConcRequests :
         txn' = [txn EXCEPT ![t] =
                    [IdleSession EXCEPT
                        !.pc = IF ListingsProcessed(listings) = <<>>
                               THEN "commit" ELSE "listing",
                        !.listings = listings]]
    /\ calls' = calls + 1
    /\ UNCHANGED <<db, seq, hist>>

NextConc ==
    \E t \in ConcSessions :
        \/ RequestConc(t)
        \/ upsert_listing(t)
        \/ upsert_properties(t)
        \/ upsert_entities(t)
        \/ entity_insert(t)
        \/ return_success(t)
        \/ commit(t)

SpecConc == InitConc /\ [][NextConc]_vars


\* ------------------------------------------------------------------ claims

Names(list) == { list[k].name : k \in 1..Len(list) }

\* A committed row of the Listing table with the given id.
StoredListing(id) == { r \in db.listings : r.listing_id = id }

\* The step is the successful commit of session t's request.
Commits(t) ==
    /\ txn[t].pc = "commit"
    /\ txn[t].response.status = "success"
    /\ txn'[t].pc = "idle"
    /\ ~txn'[t].raised

\* C1: every stored listing's dataset_entity_ids is, in order, the ids of the
\* DatasetEntity rows named by the entities list of the latest committed
\* upsert of that listing: nothing of an earlier upsert is carried over, and
\* an empty entities list leaves it empty.
C1_EntityIdsFromLatestUpsert ==
    \A r \in db.listings :
        LET latest == hist.lastOk[r.listing_id]
        IN /\ latest # NoPayload
           /\ Len(r.dataset_entity_ids) = Len(latest.entities)
           /\ \A k \in 1..Len(latest.entities) :
                \E e \in db.entities :
                    /\ e.name = latest.entities[k].name
                    /\ e.entity_id = r.dataset_entity_ids[k]

\* A listing upserted with two entities and then with fewer: its ids are
\* those of the second upsert alone.
C1_Witness ==
    \E r \in db.listings :
        /\ hist.prevOk[r.listing_id] # NoPayload
        /\ Len(hist.prevOk[r.listing_id].entities) = 2
        /\ Len(r.dataset_entity_ids) < 2

\* C2: a (listing_id, property_id) pair has a row in at most one of the two
\* value tables, and that table is the one of the Property row's type.
C2_OneTablePerDeclaredType ==
    /\ \A v \in db.strvals :
          /\ \A b \in db.boolvals :
                ~(b.listing_id = v.listing_id /\ b.property_id = v.property_id)
          /\ \A p \in db.properties :
                p.property_id = v.property_id => p.type = "STRING"
    /\ \A b \in db.boolvals :
          \A p \in db.properties :
                p.property_id = b.property_id => p.type = "BOOLEAN"


\* The listing the loop of session t is working on.
InProgress(t) == txn[t].listings[txn[t].index].listing_id

\* The step is one in which session t's request raises: an exception caught
\* by the except clause of upsert_listings, or one raised by the commit.
Raises(t) ==
    /\ txn[t].pc # "idle"
    /\ \/ txn'[t].raised
       \/ txn[t].response.status # "failed" /\ txn'[t].response.status = "failed"

\* The committed tables change only in the commit of a request that
\* answered "success": a request that raises leaves them as they were.
AllOrNothing == [][db' # db => \E t \in Sessions : Commits(t)]_vars

\* C3: a request in which a step raises leaves the committed tables as they
\* were before it and answers "failed", naming the listing in progress.
C3_RaiseRolledBackAndReported ==
    [][ \A t \in Sessions :
          Raises(t) =>
            /\ db' = db
            /\ txn'[t].w = EmptyTables
            /\ txn'[t].response = [status |-> "failed", listing_id |-> InProgress(t)]
      ]_vars

\* C4: no exception leaves upsert_listings: every request ends with a
\* response.
C4_NoExceptionPropagates ==
    \A t \in Sessions : ~txn[t].raised

C6_WholeBatchStored ==
    \A t \in Sessions :
        LET batch == txn[t].listings
            read == get_listings(db, DefaultFilters)
        IN (/\ calls = 1
            /\ txn[t].pc = "idle"
            /\ txn[t].response.status = "success"
            /\ \A a, b \in 1..Len(batch) :
                  batch[a].listing_id = batch[b].listing_id => a = b)
           => /\ Len(read) = Len(batch)
              /\ \A k \in 1..Len(batch) :
                    \E m \in 1..Len(read) :
                        /\ read[m].listing_id = batch[k].listing_id
                        /\ { x.name : x \in read[m].properties }
                              = Names(batch[k].properties)
              /\ \A a, b \in 1..Len(read) :
                    a < b => LexLess(Chars(read[a].listing_id),
                                     Chars(read[b].listing_id))

\* C7: a listing id has exactly one Listing row once an upsert of it has
\* committed (none before), with the scan_date, is_active and image_hashes of
\* the latest committed upsert; committing the payload that was committed
\* last leaves every table as it is.
C7_OneRowLatestValuesIdempotent ==
    /\ [](\A id \in ListingIds :
            LET latest == hist.lastOk[id]
            IN IF latest = NoPayload
               THEN StoredListing(id) = {}
               ELSE /\ Cardinality(StoredListing(id)) = 1
                    /\ \A r \in StoredListing(id) :
                          /\ r.scan_date = latest.scan_date
                          /\ r.is_active = latest.is_active
                          /\ r.image_hashes = latest.image_hashes)
    /\ [][ \A t \in Sessions :
             (Commits(t) /\ hist.lastDone = txn[t].listings[1]) => db' = db ]_vars

\* A listing upserted twice, the second time with the payload of the first
\* time.
C7_WitnessRepeated ==
    /\ hist.repeated
    /\ hist.prevOk[hist.lastDone.listing_id] = hist.lastDone
    /\ StoredListing(hist.lastDone.listing_id) # {}

\* A listing whose second committed upsert changed its scalar fields.
C7_Witness ==
    \E r \in db.listings :
        /\ hist.prevOk[r.listing_id] # NoPayload
        /\ hist.prevOk[r.listing_id].scan_date # r.scan_date
        /\ hist.prevOk[r.listing_id].is_active # r.is_active
        /\ hist.prevOk[r.listing_id].image_hashes # r.image_hashes

\* C8: no two Property rows have the same name; a Property row, once
\* committed, stays as it is (same property_id, same type); and the names in
\* the table grow by exactly the names of each committed payload.
C8_OnePropertyRowPerNameTypeFixed ==
    /\ [](\A a, b \in db.properties : a.name = b.name => a = b)
    /\ [][ /\ db.properties \subseteq db'.properties
           /\ { r.name : r \in db'.properties } =
                 { r.name : r \in db.properties } \cup
                 UNION { Names(txn[t].listings[1].properties) :
                            t \in { u \in Sessions : Commits(u) } }
       ]_vars

\* A Property created as STRING, upserted again as a boolean: its value row
\* went to the boolean table and its type is still STRING.
C8_Witness ==
    \E r \in db.properties :
        /\ r.type = "STRING"
        /\ \E v \in db.boolvals : v.property_id = r.property_id

\* C9: no two DatasetEntity rows have the same name; in the commit of an
\* upsert, every entity the payload names has, afterwards, exactly the data
\* the payload gives it last, under the entity_id it had before if it
\* existed, and every listing that refers to that id reads that data.
C9_EntitySharedLastWriterWins ==
    /\ [](\A a, b \in db.entities : a.name = b.name => a = b)
    /\ [][ \A t \in Sessions :
             Commits(t) =>
               LET es == txn[t].listings[1].entities
                   read == get_listings(db', DefaultFilters)
               IN \A k \in 1..Len(es) :
                    (\A m \in (k + 1)..Len(es) : es[m].name # es[k].name) =>
                      \E e \in db'.entities :
                        /\ e.name = es[k].name
                        /\ e.data = es[k].data
                        /\ \A o \in db.entities :
                              o.name = e.name => o.entity_id = e.entity_id
                        /\ \A m \in 1..Len(read) :
                              e.entity_id \in Range(read[m].dataset_entity_ids) =>
                                [name |-> e.name, data |-> e.data] \in read[m].entities
       ]_vars

\* Two listings refer to one entity, whose data is not the data the earlier
\* of them was upserted with: the later upsert overwrote it.
C9_Witness ==
    \E e \in db.entities : \E a, b \in db.listings :
        /\ a.listing_id # b.listing_id
        /\ e.entity_id \in Range(a.dataset_entity_ids)
        /\ e.entity_id \in Range(b.dataset_entity_ids)
        /\ \E k \in 1..Len(hist.lastOk[a.listing_id].entities) :
              /\ hist.lastOk[a.listing_id].entities[k].name = e.name
              /\ hist.lastOk[a.listing_id].entities[k].data # e.data

\* The value row v of one of the value tables is still there after the step,
\* with its value, unless the step commits an upsert of v's listing whose
\* payload names v's property.
Kept(tbl, v) ==
    \E n \in db'[tbl] :
        /\ n.listing_id = v.listing_id
        /\ n.property_id = v.property_id
        /\ \/ n.value = v.value
           \/ \E t \in Sessions :
                /\ Commits(t)
                /\ txn[t].listings[1].listing_id = v.listing_id
                /\ \E p \in db.properties :
                      /\ p.property_id = v.property_id
                      /\ p.name \in Names(txn[t].listings[1].properties)

\* C10: no step removes a value row, and a value row changes only in the
\* commit of an upsert of its own listing whose payload names its property.
C10_ValueRowsNeverDeleted ==
    [][ /\ \A v \in db.strvals : Kept("strvals", v)
        /\ \A v \in db.boolvals : Kept("boolvals", v) ]_vars

\* A listing upserted twice keeps a value row of a property that the payload
\* of its second upsert does not name.
C10_Witness ==
    \E v \in db.boolvals : \E p \in db.properties :
        /\ p.property_id = v.property_id
        /\ hist.prevOk[v.listing_id] # NoPayload
        /\ p.name \in Names(hist.prevOk[v.listing_id].properties)
        /\ p.name \notin Names(hist.lastOk[v.listing_id].properties)

\* ------------------------------------------------------- claims: the read

\* The listing ids a read with the given filters returns.
Returned(filters) ==
    { x.listing_id : x \in Range(get_listings(db, filters)) }

\* The dataset_entities filters of test_get_listings_with_dataset_entities,
\* and one with two keys.
EntityFilters ==
    { {<<"key1", "value1">>}, {<<"key3", "value3">>},
      {<<"key1", "value1">>, <<"key2", "value2">>} }

\* C11: under a dataset_entities filter the listings returned are exactly
\* those with at least one entity, among the ones their dataset_entity_ids
\* refer to, whose data contains every key/value pair of the filter; a
\* listing whose entities all fail the test is not returned.
C11_ReturnedIffSomeEntityContains ==
    \A d \in EntityFilters :
        Returned([DefaultFilters EXCEPT !.dataset_entities = {d}]) =
            { r.listing_id :
                r \in { l \in db.listings :
                          \E e \in db.entities :
                              /\ e.entity_id \in Range(l.dataset_entity_ids)
                              /\ \A kv \in d : kv \in e.data } }

\* The values tried for a scan date bound: absent, or one of the dates the
\* payloads carry.
DateBounds == { {}, {1}, {2} }

\* C12: the two scan date bounds are optional independently of each other
\* and inclusive: the listings returned are exactly those whose scan_date
\* is >= scan_date_from when it is given and <= scan_date_to when it is
\* given.
C12_DateBoundsIndependent ==
    \A from \in DateBounds : \A to \in DateBounds :
        Returned([DefaultFilters EXCEPT !.scan_date_from = from,
                                        !.scan_date_to = to]) =
            { r.listing_id :
                r \in { l \in db.listings :
                          /\ \A f \in from : l.scan_date >= f
                          /\ \A t \in to : l.scan_date <= t } }

\* The expected values the boolean value table takes for true and for false.
TrueLike == {"true", "True", "1", "on", "yes"}
FalseLike == {"false", "False", "0", "off", "no"}

\* The properties filters tried: for property 1 a spelling of true, one of
\* false, a text that is no spelling of a boolean, a stored text and the
\* same text in lower case; and two objects of two entries.
PropertyFilters ==
    { {<<"1", e>>} : e \in {"yes", "0", "TRUE", "Apple", "apple"} }
    \cup { {<<"1", "on">>, <<"2", "Apple">>}, {<<"1", "Apple">>, <<"2", "false">>} }

\* Listing l has a value row of property `id` that matches `expected`: a row
\* of the boolean table when expected is one of the spellings of its value,
\* a row of the string table when it holds exactly the expected text.
HasMatchingValue(l, id, expected) ==
    \/ \E v \in db.boolvals :
          /\ v.listing_id = l.listing_id
          /\ v.property_id = IntOf(id)
          /\ \/ v.value /\ expected \in TrueLike
             \/ ~v.value /\ expected \in FalseLike
    \/ \E v \in db.strvals :
          /\ v.listing_id = l.listing_id
          /\ v.property_id = IntOf(id)
          /\ v.value = expected

PageFilters ==
    { [DefaultFilters EXCEPT !.page = {p}, !.is_active = a, !.listing_id = id] :
        p \in {1, 2}, a \in {{}, {TRUE}}, id \in {{}, {"113"}} }

\* The number of the page a filter asks for.
PageOf(filters) == CHOOSE p \in filters.page : TRUE

\* OFFSET and LIMIT cut an ordered result of any length into consecutive
\* pages of PAGE_SIZE rows: 150 rows give 100 on page 1 and 50 on page 2.
PagesPartitionTheRows ==
    \A n \in {0, 1, 99, 100, 101, 150, 250} :
        LET ordered == [k \in 1..n |-> k]
        IN /\ Paginate(ordered, {1}) \o Paginate(ordered, {2})
                \o Paginate(ordered, {3}) = ordered
           /\ \A p \in 1..3 :
                Len(Paginate(ordered, {p})) =
                    IF n >= p * PAGE_SIZE THEN PAGE_SIZE
                    ELSE IF n > (p - 1) * PAGE_SIZE THEN n - (p - 1) * PAGE_SIZE
                    ELSE 0

\* The stored listings a filter of PageFilters asks for.
Matching(filters) ==
    { l \in db.listings :
        /\ \A a \in filters.is_active : l.is_active = a
        /\ \A id \in filters.listing_id : l.listing_id = id }

\* The rows of the answer are the page of the matching listings in
\* ascending order of listing_id.
PageOfSortedMatches ==
    \A filters \in PageFilters :
        LET response == Response(db, filters)
            sorted == OrderByListingId(Matching(filters))
            first == (PageOf(filters) - 1) * 100 + 1
            last == IF Len(sorted) < PageOf(filters) * 100
                    THEN Len(sorted) ELSE PageOf(filters) * 100
        IN /\ Len(response.listings) = IF last < first THEN 0 ELSE last - first + 1
           /\ \A k \in 1..Len(response.listings) :
                response.listings[k].listing_id = sorted[first + k - 1].listing_id

\* C14: a read of page p answers with the listings at positions
\* (p - 1) * 100 + 1 to p * 100 of the matching listings in ascending order
\* of listing_id, and with a total equal to the number of matching listings
\* whatever the page.
C14_PageOfSortedMatchesAndTotal ==
    /\ PageOfSortedMatches
    /\ \A filters \in PageFilters :
          LET response == Response(db, filters)
          IN /\ "total" \in DOMAIN response
             /\ response.total = Cardinality(Matching(filters))

\* --------------------------------------------- claims: concurrent upserts

\* C15: whatever the interleaving of concurrent upserts that name a
\* property not yet in the store, the committed store has at most one
\* Property row of a name, and the value rows of properties of one name all
\* refer to the same property_id.
C15_OnePropertyRowPerNameConcurrent ==
    /\ \A p \in db.properties : \A q \in db.properties :
          p.name = q.name => p.property_id = q.property_id
    /\ \A v \in db.strvals \cup db.boolvals :
       \A x \in db.strvals \cup db.boolvals :
          \A p \in db.properties : \A q \in db.properties :
              /\ p.property_id = v.property_id
              /\ q.property_id = x.property_id
              /\ p.name = q.name
              => v.property_id = x.property_id

\* C16: whatever the interleaving of concurrent upserts of one listing_id,
\* the committed store has exactly one Listing row of that id, and its
\* scan_date, is_active, image_hashes and dataset_entity_ids are all those
\* of the payload of the upsert of that listing that committed last.
C16_RowFromLastCommittedUpsert ==
    \A id \in ListingIds :
        LET latest == hist.lastOk[id]
        IN latest # NoPayload =>
             /\ Cardinality(StoredListing(id)) = 1
             /\ \A r \in StoredListing(id) :
                   /\ r.scan_date = latest.scan_date
                   /\ r.is_active = latest.is_active
                   /\ r.image_hashes = latest.image_hashes
                   /\ Len(r.dataset_entity_ids) = Len(latest.entities)
                   /\ \A k \in 1..Len(latest.entities) :
                        \E e \in db.entities :
                            /\ e.name = latest.entities[k].name
                            /\ e.entity_id = r.dataset_entity_ids[k]

\* A session in the middle of a request is never stuck for good: some
\* session can take a step.
NoSessionWaitsForEver ==
    (\E t \in DOMAIN txn : txn[t].pc # "idle") => ENABLED NextConc

====
